---- MODULE Spec2Model ----
(***************************************************************************)
(* Model of the ingestion / merge / dispatch pipeline of                   *)
(* audio-recordings-ingress.                                               *)
(*                                                                         *)
(* Three sheets of one spreadsheet act as logs:                            *)
(*   A = transcribe_audio  (flag column merge_status_transcribe)           *)
(*   B = tag_transcripts   (flag column merge_status_tag)                  *)
(*   C = merged_data       (flag column sent_flag)                         *)
(* Every Sheets / Gmail API call is one atomic step; the Python code       *)
(* between two calls is folded into the step of the call that precedes it. *)
(* Several users may press 'Generate Report' at the same time; each has    *)
(* its own script run with its own local DataFrames.                       *)
(***************************************************************************)
EXTENDS Integers, Sequences, FiniteSets, TLC

\* ---------------------------------------------------------------- bounds
MaxIds == 2        \* record identifiers (Drive file ids) are 1..MaxIds
MaxInitA == 2      \* data rows found in A when the model starts
MaxInitB == 2      \* data rows found in B when the model starts
MaxA == 2          \* data rows of A
MaxB == 3          \* data rows of B
MaxC == 4          \* data rows of C
MaxRuns == 2       \* 'Generate Report' runs
MaxFiles == 2      \* media files in the unprocessed folder
MaxLegacyRows == 3 \* data rows of the sheet the older report reads
MaxReadRows == 2   \* data rows of a ragged sheet
MaxReadWidth == 5  \* cells of a row of a ragged sheet

Ids == 1..MaxIds
Users == {"u1", "u2"}
Files == 1..MaxFiles

\* ------------------------------------------------------- program constants
UNIQUE_ID_COLUMN == "gd_transcript_file_id"
MERGE_STATUS_TAG == "merge_status_tag"
MERGE_STATUS_TRANSCRIBE == "merge_status_transcribe"
SENT_FLAG_COLUMN == "sent_flag"
DATETIME_TAGGED == "datetime_tagged"
GD_INPUT_AUDIO_FILE_ID == "gd_input_audio_file_id"
EMAIL_SENT == "Email sent. You can close this tab now."
DATETIME_TRANSCRIBED == "datetime_transcribed"

VARIABLES
    A, B, C,       \* the sheets transcribe_audio, tag_transcripts, merged_data:
                   \* what values().get returns, header row first
    nInitA, nInitB, nInitC, \* data rows of A, B, C found when the model starts
    nextId,        \* next Drive file id handed out by an upload
    prevId,        \* gd_transcript_file_id left over from the previous file
                   \* of the running Ingestion loop (0 = unbound)
    inbox,         \* the media files in the unprocessed-audio folder
    file,          \* the file the running Ingestion loop has got to (0 = no
                   \* loop is running); the folder lists its files in order
    transcriptions_log, \* st.session_state['transcriptions_log'] of the
                   \* Tagging session, as the set of its transcript ids
    status,        \* per user: the last line on the Generate Report page
    report_pc,     \* position in send_email_report of tag_transcripts.py
    unsent_rows,   \* send_email_report's unsent_rows
    report_message,\* the last st.success / st.info / st.error of the report
    pc,            \* per user: position in the Generate Report handler
    df_tag,        \* per user: merge_data's df_tag
    merged_df,     \* per user: merge_data's merged_df
    merged_data_existing, \* per user: merge_data's merged_data_existing
    merged_data_df,\* per user: send_emails' merged_data_df
    unsent_index,  \* per user: send_emails' unsent_df.index
    requests,      \* per user: row_index of every updateCells request
    outbox,        \* every call of send_email: the batch (index), the number
                   \* of rows of C the run had read, the outcome (ok) and the
                   \* message the run then shows
    runs,          \* number of Generate Report runs started
    aborted,       \* some Generate Report run has ended with an exception
    overlap        \* some Generate Report run has started during another one

vars == <<A, B, C, nInitA, nInitB, nInitC, nextId, prevId, inbox, file,
          transcriptions_log, status, report_pc, unsent_rows, report_message, pc, df_tag, merged_df,
          merged_data_existing, merged_data_df, unsent_index, requests,
          outbox, runs, aborted, overlap>>

\* ------------------------------------------------------------ sequences
Max(a, b) == IF a >= b THEN a ELSE b

Has(s, x) == \E k \in 1..Len(s) : s[k] = x

\* list.index(x): the first position of x
IndexOf(s, x) == CHOOSE k \in 1..Len(s) : s[k] = x /\ \A j \in 1..(k-1) : s[j] # x

RECURSIVE Flatten(_)
Flatten(ss) == IF ss = <<>> THEN <<>> ELSE Head(ss) \o Flatten(Tail(ss))

\* ----------------------------------------------------------- DataFrames
\* A DataFrame is its column names and its rows, each row as wide as columns.
EmptyDF == [columns |-> <<>>, rows |-> <<>>]

IsEmpty(df) == Len(df.columns) = 0 \/ Len(df.rows) = 0

Cell(df, row, col) == row[IndexOf(df.columns, col)]

\* Variant of AdjustRow: a short row is padded, a long row is left as it is.
AdjustRow_PadOnly(row, n) ==
    [k \in 1..(IF Len(row) > n THEN Len(row) ELSE n) |->
        IF k <= Len(row) THEN row[k] ELSE ""]

\* rows[i] = row + [''] * (n - len(row))  or  row[:n]
AdjustRow(row, n) == [k \in 1..n |-> IF k <= Len(row) THEN row[k] ELSE ""]

download_sheet_as_df(values) ==
    IF values = <<>> THEN EmptyDF
    ELSE [columns |-> values[1],
          rows |-> [i \in 1..(Len(values) - 1) |->
                       AdjustRow(values[i + 1], Len(values[1]))]]

\* df[col] = v
SetColumn(df, col, v) ==
    IF Has(df.columns, col)
    THEN [df EXCEPT !.rows = [i \in 1..Len(df.rows) |->
              [df.rows[i] EXCEPT ![IndexOf(df.columns, col)] = v]]]
    ELSE [columns |-> Append(df.columns, col),
          rows |-> [i \in 1..Len(df.rows) |-> Append(df.rows[i], v)]]

\* Variant of SetColumnAt: the index is taken one row off.
SetColumnAt_OffByOne(df, index, col, v) ==
    [df EXCEPT !.rows = [i \in 1..Len(df.rows) |->
        IF (i + 1) \in index THEN [df.rows[i] EXCEPT ![IndexOf(df.columns, col)] = v]
        ELSE df.rows[i]]]

\* df.loc[index, col] = v
SetColumnAt(df, index, col, v) ==
    [df EXCEPT !.rows = [i \in 1..Len(df.rows) |->
        IF i \in index THEN [df.rows[i] EXCEPT ![IndexOf(df.columns, col)] = v]
        ELSE df.rows[i]]]

\* Variant of IndexWhere: the filter is left out, every row is selected.
IndexWhere_All(df, col, v) == {i \in 1..Len(df.rows) : TRUE}

\* df[df[col] == v].index
IndexWhere(df, col, v) == {i \in 1..Len(df.rows) : Cell(df, df.rows[i], col) = v}

Without(s, col) == SelectSeq(s, LAMBDA c : c # col)

DropCell(df, row, col) ==
    LET k == IndexOf(df.columns, col)
    IN  [j \in 1..(Len(row) - 1) |-> IF j < k THEN row[j] ELSE row[j + 1]]

\* Variant of pd_merge: the rows of left are deduplicated on the key first
\* (drop_duplicates), so one row per identifier is joined.
pd_merge_DropDuplicates(left, right, key) ==
    LET first(i) == \A j \in 1..(i - 1) :
                        Cell(left, left.rows[j], key) # Cell(left, left.rows[i], key)
        kept == SelectSeq([i \in 1..Len(left.rows) |-> i], first)
        matches(l) == SelectSeq(right.rows,
                         LAMBDA r : Cell(right, r, key) = Cell(left, l, key))
        joined(l) == [j \in 1..Len(matches(l)) |->
                         l \o DropCell(right, matches(l)[j], key)]
    IN  [columns |-> left.columns \o Without(right.columns, key),
         rows |-> Flatten([k \in 1..Len(kept) |-> joined(left.rows[kept[k]])])]

\* pd.merge(left, right, on=key, how='inner'): the rows of left in order, each
\* with every row of right of the same key, in the order of right.
pd_merge(left, right, key) ==
    LET matches(l) == SelectSeq(right.rows,
                         LAMBDA r : Cell(right, r, key) = Cell(left, l, key))
        joined(l) == [j \in 1..Len(matches(l)) |->
                         l \o DropCell(right, matches(l)[j], key)]
    IN  [columns |-> left.columns \o Without(right.columns, key),
         rows |-> Flatten([i \in 1..Len(left.rows) |-> joined(left.rows[i])])]

\* Variant of pd_concat: pd.concat([b, a]), the new rows first.
pd_concat_NewFirst(a, b) ==
    LET cols == a.columns \o SelectSeq(b.columns, LAMBDA c : ~Has(a.columns, c))
        widen(df, row) == [k \in 1..Len(cols) |->
                             IF Has(df.columns, cols[k])
                             THEN Cell(df, row, cols[k]) ELSE ""]
    IN  [columns |-> cols,
         rows |-> [i \in 1..Len(b.rows) |-> widen(b, b.rows[i])] \o
                  [i \in 1..Len(a.rows) |-> widen(a, a.rows[i])]]

\* Variant of pd_concat: followed by drop_duplicates on the two timestamps, a
\* row whose pair is in the result already is left out.
pd_concat_DropDuplicates(a, b) ==
    LET cols == a.columns \o SelectSeq(b.columns, LAMBDA c : ~Has(a.columns, c))
        widen(df, row) == [k \in 1..Len(cols) |->
                             IF Has(df.columns, cols[k])
                             THEN Cell(df, row, cols[k]) ELSE ""]
        all == [i \in 1..Len(a.rows) |-> widen(a, a.rows[i])] \o
               [i \in 1..Len(b.rows) |-> widen(b, b.rows[i])]
        pair(r) == <<r[IndexOf(cols, DATETIME_TRANSCRIBED)], r[IndexOf(cols, DATETIME_TAGGED)]>>
        first(i) == \A j \in 1..(i - 1) : pair(all[j]) # pair(all[i])
        kept == SelectSeq([i \in 1..Len(all) |-> i], first)
    IN  [columns |-> cols, rows |-> [k \in 1..Len(kept) |-> all[kept[k]]]]

\* pd.concat([a, b], ignore_index=True) followed by fillna('')
pd_concat(a, b) ==
    LET cols == a.columns \o SelectSeq(b.columns, LAMBDA c : ~Has(a.columns, c))
        widen(df, row) == [k \in 1..Len(cols) |->
                             IF Has(df.columns, cols[k])
                             THEN Cell(df, row, cols[k]) ELSE ""]
    IN  [columns |-> cols,
         rows |-> [i \in 1..Len(a.rows) |-> widen(a, a.rows[i])] \o
                  [i \in 1..Len(b.rows) |-> widen(b, b.rows[i])]]

\* ------------------------------------------------------------- Row Store
\* values().update(range='A1', body=[columns] + rows): writes the given cells
\* from the top left corner; a cell outside the written block keeps its value.
update_sheet(values, df) ==
    LET new == <<df.columns>> \o df.rows
        over(old, row) == [k \in 1..Max(Len(old), Len(row)) |->
                             IF k <= Len(row) THEN row[k] ELSE old[k]]
    IN  [i \in 1..Max(Len(values), Len(new)) |->
            IF i > Len(new) THEN values[i]
            ELSE IF i > Len(values) THEN new[i]
            ELSE over(values[i], new[i])]

\* values().append(insertDataOption='INSERT_ROWS'): one more row at the end
append_row(values, row) == Append(values, row)

\* merged_df[UNIQUE_ID_COLUMN].tolist()
UniqueIds(df) == {Cell(df, df.rows[i], UNIQUE_ID_COLUMN) : i \in 1..Len(df.rows)}

\* Variant of MergeStatusRequests: the identifier test never matches (ids
\* compared with the wrong type), so no request is made.
MergeStatusRequests_NoMatch(values, unique_ids, flag_column) == {}

\* Variant of MergeStatusRequests: without the test "flag is not already '1'".
MergeStatusRequests_NoTerminalCheck(values, unique_ids, flag_column) ==
    LET headers == values[1]
        unique_id_index == IndexOf(headers, UNIQUE_ID_COLUMN)
    IN  {row_index \in 1..(Len(values) - 1) :
            LET row == values[row_index + 1]
            IN  /\ Len(row) >= unique_id_index
                /\ row[unique_id_index] \in unique_ids}

\* The loop of update_merge_statuses over values[1:]: the row_index (header = 0)
\* of every row whose id is in unique_ids and whose flag cell is not '1'.
MergeStatusRequests(values, unique_ids, flag_column) ==
    LET headers == values[1]
        unique_id_index == IndexOf(headers, UNIQUE_ID_COLUMN)
        flag_index == IndexOf(headers, flag_column)
        padded(row) == AdjustRow(row, Max(Len(row), flag_index))
    IN  {row_index \in 1..(Len(values) - 1) :
            LET row == values[row_index + 1]
            IN  /\ Len(row) >= unique_id_index
                /\ row[unique_id_index] \in unique_ids
                /\ padded(row)[flag_index] # "1"}

\* Variant of ApplyMergeStatusRequests: enumerate(rows) without start=1, every
\* write lands one row above the row it is meant for.
ApplyMergeStatusRequests_NoHeaderOffset(values, reqs, flag_column) ==
    LET flag_index == IndexOf(values[1], flag_column)
        set(row) == [k \in 1..Max(Len(row), flag_index) |->
                        IF k = flag_index THEN "1"
                        ELSE IF k <= Len(row) THEN row[k] ELSE ""]
    IN  [i \in 1..Len(values) |->
            IF i > 1 /\ i \in reqs THEN set(values[i]) ELSE values[i]]

\* Variant of ApplyMergeStatusRequests: the whole flag column is rewritten,
\* '1' for the requested rows and '0' for the others.
ApplyMergeStatusRequests_RewriteColumn(values, reqs, flag_column) ==
    LET flag_index == IndexOf(values[1], flag_column)
        set(row, v) == [k \in 1..Max(Len(row), flag_index) |->
                           IF k = flag_index THEN v
                           ELSE IF k <= Len(row) THEN row[k] ELSE ""]
    IN  [i \in 1..Len(values) |->
            IF i = 1 THEN values[i]
            ELSE IF (i - 1) \in reqs THEN set(values[i], "1")
            ELSE set(values[i], "0")]

\* batchUpdate of the updateCells requests: stringValue "1" in the flag cell of
\* each requested row; a row that did not reach the cell grows up to it.
ApplyMergeStatusRequests(values, reqs, flag_column) ==
    LET flag_index == IndexOf(values[1], flag_column)
        set(row) == [k \in 1..Max(Len(row), flag_index) |->
                        IF k = flag_index THEN "1"
                        ELSE IF k <= Len(row) THEN row[k] ELSE ""]
    IN  [i \in 1..Len(values) |->
            IF (i - 1) \in reqs THEN set(values[i]) ELSE values[i]]

\* ---------------------------------------------------------- merge_data
\* Lines 577-585: default flag columns, inner join, both flags '0'.
EnsureColumn(df, col, v) == IF Has(df.columns, col) THEN df ELSE SetColumn(df, col, v)

\* Variant of UnmergedRows: only the flag of the tagging row is tested.
UnmergedRows_TagOnly(joined) ==
    [joined EXCEPT !.rows = SelectSeq(joined.rows,
        LAMBDA r : Cell(joined, r, MERGE_STATUS_TAG) = "0")]

UnmergedRows(joined) ==
    [joined EXCEPT !.rows = SelectSeq(joined.rows,
        LAMBDA r : /\ Cell(joined, r, MERGE_STATUS_TAG) = "0"
                   /\ Cell(joined, r, MERGE_STATUS_TRANSCRIBE) = "0")]

\* Variant of NewMergedRows: the filter on the two flags is left out.
NewMergedRows_NoFilter(tag, transcribe) ==
    LET t == EnsureColumn(tag, MERGE_STATUS_TAG, "0")
        a == EnsureColumn(transcribe, MERGE_STATUS_TRANSCRIBE, "0")
        m == pd_merge(t, a, UNIQUE_ID_COLUMN)
    IN  IF Len(m.rows) = 0 THEN m
        ELSE SetColumn(SetColumn(SetColumn(m, MERGE_STATUS_TAG, "1"),
                                 MERGE_STATUS_TRANSCRIBE, "1"),
                       SENT_FLAG_COLUMN, "0")

\* Lines 590-595: flags '1' and sent_flag '0' on the rows to append.
NewMergedRows(tag, transcribe) ==
    LET t == EnsureColumn(tag, MERGE_STATUS_TAG, "0")
        a == EnsureColumn(transcribe, MERGE_STATUS_TRANSCRIBE, "0")
        m == UnmergedRows(pd_merge(t, a, UNIQUE_ID_COLUMN))
    IN  IF Len(m.rows) = 0 THEN m
        ELSE SetColumn(SetColumn(SetColumn(m, MERGE_STATUS_TAG, "1"),
                                 MERGE_STATUS_TRANSCRIBE, "1"),
                       SENT_FLAG_COLUMN, "0")

\* Variant of Combined: the existing rows are not read back in, C is written
\* with the new rows only.
Combined_NewOnly(existing, new) == new

\* Variant of Combined: only the new rows whose pair is not in the existing
\* rows are appended.
Combined_OnlyAbsent(existing, new) ==
    IF IsEmpty(existing) THEN new
    ELSE LET pair(df, r) == <<Cell(df, r, DATETIME_TRANSCRIBED), Cell(df, r, DATETIME_TAGGED)>>
             absent(r) == \A i \in 1..Len(existing.rows) :
                              pair(existing, existing.rows[i]) # pair(new, r)
         IN  pd_concat(existing, [new EXCEPT !.rows = SelectSeq(new.rows, absent)])

\* Variant of Combined: the sent flag of the combined rows is reset to '0'.
Combined_ResetSent(existing, new) ==
    IF IsEmpty(existing) THEN new
    ELSE SetColumn(pd_concat(existing, new), SENT_FLAG_COLUMN, "0")

\* Lines 599-602
Combined(existing, new) == IF IsEmpty(existing) THEN new ELSE pd_concat(existing, new)

\* ------------------------------------------------------------------ Init
NRowsOf(values) == IF values = <<>> THEN 0 ELSE Len(values) - 1

\* Column order of the three sheets, cut down to the columns the pipeline reads:
\* A = id, datetime_transcribed, ..., input audio file id, ...
\*     [, merge_status_transcribe]
\* B = id, datetime_tagged, ..., column J
\* Column J of B is merge_status_tag, or the older sent_flag when the sheet has
\* no merge-status column.
HeaderA(withFlag) ==
    IF withFlag THEN <<UNIQUE_ID_COLUMN, DATETIME_TRANSCRIBED, GD_INPUT_AUDIO_FILE_ID,
                       MERGE_STATUS_TRANSCRIBE>>
    ELSE <<UNIQUE_ID_COLUMN, DATETIME_TRANSCRIBED, GD_INPUT_AUDIO_FILE_ID>>

HeaderB(withFlag) ==
    IF withFlag THEN <<UNIQUE_ID_COLUMN, DATETIME_TAGGED, MERGE_STATUS_TAG>>
    ELSE <<UNIQUE_ID_COLUMN, DATETIME_TAGGED, SENT_FLAG_COLUMN>>

InitFlags == {"0", "1"}

MaxOf(S) == IF S = {} THEN 0 ELSE CHOOSE x \in S : \A y \in S : y <= x

\* What earlier sessions can have left in C: the pairs of rows of A and B of
\* one id that both carry flag '1', as merge_data lays a merged row out.
EarlierMerged(a, b) ==
    LET t == EnsureColumn(download_sheet_as_df(b), MERGE_STATUS_TAG, "0")
        r == EnsureColumn(download_sheet_as_df(a), MERGE_STATUS_TRANSCRIBE, "0")
        j == pd_merge(t, r, UNIQUE_ID_COLUMN)
        m == [j EXCEPT !.rows = SelectSeq(j.rows,
                LAMBDA x : /\ Cell(j, x, MERGE_STATUS_TAG) = "1"
                           /\ Cell(j, x, MERGE_STATUS_TRANSCRIBE) = "1")]
    IN  SetColumn(m, SENT_FLAG_COLUMN, "0")

\* The spreadsheet as the scripts find it: A and B hold the rows of earlier
\* sessions (one A row per transcript 1..na, each made from a media file that
\* has been archived since), C holds some of the pairs merged earlier, sent or
\* not, the unprocessed folder holds the files 1..MaxFiles, nobody is running.
Init ==
    /\ \E fa \in BOOLEAN, fb \in BOOLEAN,
          na \in 0..(IF MaxInitA <= MaxIds THEN MaxInitA ELSE MaxIds),
          nb \in 0..MaxInitB :
         \E flagsA \in [1..na -> IF fa THEN InitFlags ELSE {""}],
            idsB \in [1..nb -> Ids],
            flagsB \in [1..nb -> IF fb THEN InitFlags ELSE {"No"}] :
           /\ A = <<HeaderA(fa)>> \o
                  [k \in 1..na |-> IF fa THEN <<k, k, MaxFiles + k, flagsA[k]>>
                                          ELSE <<k, k, MaxFiles + k>>]
           /\ B = <<HeaderB(fb)>> \o [k \in 1..nb |-> <<idsB[k], k, flagsB[k]>>]
           /\ nInitA = na
           /\ nInitB = nb
           /\ nextId = 1 + Max(na, MaxOf({idsB[k] : k \in 1..nb}))
    /\ \E kept \in SUBSET (1..Len(EarlierMerged(A, B).rows)) :
         \E sent \in [kept -> InitFlags] :
           /\ nInitC = Cardinality(kept)
           /\ C = IF kept = {} THEN <<>>
                  ELSE LET df == EarlierMerged(A, B)
                           row(i) == [df.rows[i] EXCEPT
                                        ![IndexOf(df.columns, SENT_FLAG_COLUMN)] = sent[i]]
                           pick == SelectSeq([i \in 1..Len(df.rows) |-> i],
                                             LAMBDA i : i \in kept)
                      IN  <<df.columns>> \o [k \in 1..Len(pick) |-> row(pick[k])]
    /\ prevId = 0
    /\ inbox = Files
    /\ file = 0
    /\ transcriptions_log = {}
    /\ status = [u \in Users |-> ""]
    /\ report_pc = "idle"
    /\ unsent_rows = <<>>
    /\ report_message = ""
    /\ pc = [u \in Users |-> "idle"]
    /\ df_tag = [u \in Users |-> EmptyDF]
    /\ merged_df = [u \in Users |-> EmptyDF]
    /\ merged_data_existing = [u \in Users |-> EmptyDF]
    /\ merged_data_df = [u \in Users |-> EmptyDF]
    /\ unsent_index = [u \in Users |-> {}]
    /\ requests = [u \in Users |-> {}]
    /\ outbox = <<>>
    /\ runs = 0
    /\ aborted = FALSE
    /\ overlap = FALSE

\* ---------------------------------------------------- Ingestion and Tagging
\* The files of the unprocessed folder the running loop has still to process;
\* a press of the button lists the folder (line 445).
Todo == {f \in inbox : f > file}

\* One pass of the file loop of 'Transcribe Audio Files', on the next file of
\* the listing.  docx: the transcript document was saved, so it is uploaded
\* and gets a new Drive id; otherwise gd_transcript_file_id keeps the value of
\* the previous file.  moved: the move of the media file to the archive
\* folder (line 564) succeeded; a failure is only printed.  Then line 584
\* raises NameError when gd_transcript_file_id is unbound, which ends the
\* loop.  logged: the sheet append succeeded; a failure is only reported.
\* The row has 15 cells: the merge-status column is not written.
IngestFile(docx, moved, logged) ==
    /\ Len(A) - 1 < MaxA
    /\ docx => nextId <= MaxIds
    /\ Todo # {}
    /\ LET gd_input_audio_file_id == CHOOSE f \in Todo : \A g \in Todo : f <= g
           gd_transcript_file_id == IF docx THEN nextId ELSE prevId
           datetime_transcribed == Len(A)
       IN  /\ nextId' = IF docx THEN nextId + 1 ELSE nextId
           /\ inbox' = IF moved THEN inbox \ {gd_input_audio_file_id} ELSE inbox
           /\ IF gd_transcript_file_id = 0
              THEN /\ prevId' = 0
                   /\ file' = 0
                   /\ A' = A
              ELSE /\ prevId' = gd_transcript_file_id
                   /\ file' = gd_input_audio_file_id
                   /\ A' = IF logged
                           THEN append_row(A, <<gd_transcript_file_id, datetime_transcribed,
                                                gd_input_audio_file_id>>)
                           ELSE A
    /\ UNCHANGED <<B, C, nInitA, nInitB, nInitC, transcriptions_log, status,
                   report_pc, unsent_rows, report_message, pc, df_tag, merged_df, merged_data_existing,
                   merged_data_df, unsent_index, requests, outbox, runs, aborted, overlap>>

\* The file loop ends, after its last file or by an exception before the
\* upload of the next one (line 626); the next press of the button starts a
\* new script run.
IngestEnd ==
    /\ file # 0
    /\ prevId' = 0
    /\ file' = 0
    /\ UNCHANGED <<A, B, C, nInitA, nInitB, nInitC, nextId, inbox, transcriptions_log,
                   status, report_pc, unsent_rows, report_message, pc, df_tag, merged_df,
                   merged_data_existing, merged_data_df, unsent_index, requests,
                   outbox, runs, aborted, overlap>>

\* Submit of the tagging form for transcript id: ten cells, the tenth is 'No'.
\* logged: the sheet append succeeded; a failure is only reported (lines
\* 882-894) and the handler goes on to the file properties, the rename, the
\* move, the CRM note and the session log entry (lines 896-952).
TagSubmit(id, logged) ==
    /\ Len(B) - 1 < MaxB
    /\ id < nextId
    /\ LET datetime_tagged == Len(B)
       IN  B' = IF logged THEN append_row(B, <<id, datetime_tagged, "No">>) ELSE B
    /\ transcriptions_log' = transcriptions_log \cup {id}
    /\ UNCHANGED <<A, C, nInitA, nInitB, nInitC, nextId, prevId, inbox, file, status,
                   report_pc, unsent_rows, report_message, pc, df_tag, merged_df,
                   merged_data_existing, merged_data_df, unsent_index, requests,
                   outbox, runs, aborted, overlap>>

\* --------------------------------------------------- 'Generate Report'
stageVars == <<nInitA, nInitB, nInitC, nextId, prevId, inbox, file, transcriptions_log,
               report_pc, unsent_rows, report_message>>

\* The handler returns or dies: the script run is over, its variables are gone.
EndRun(u) ==
    /\ pc' = [pc EXCEPT ![u] = "idle"]
    /\ df_tag' = [df_tag EXCEPT ![u] = EmptyDF]
    /\ merged_df' = [merged_df EXCEPT ![u] = EmptyDF]
    /\ merged_data_existing' = [merged_data_existing EXCEPT ![u] = EmptyDF]
    /\ merged_data_df' = [merged_data_df EXCEPT ![u] = EmptyDF]
    /\ unsent_index' = [unsent_index EXCEPT ![u] = {}]
    /\ requests' = [requests EXCEPT ![u] = {}]

\* An exception nobody catches ends the run.
Raise(u) ==
    /\ EndRun(u)
    /\ aborted' = TRUE
    /\ status' = status

\* send_emails returns: lines 624-625 of the button handler.
Done(u) ==
    /\ EndRun(u)
    /\ status' = [status EXCEPT ![u] = EMAIL_SENT]

Goto(u, p) == pc' = [pc EXCEPT ![u] = p]

\* if st.button('Generate Report'): merge_data() ...
GenerateReport(u) ==
    /\ pc[u] = "idle"
    /\ runs < MaxRuns
    /\ runs' = runs + 1
    /\ Goto(u, "merge_get_tag")
    /\ overlap' = (overlap \/ \E v \in Users \ {u} : pc[v] # "idle")
    /\ status' = [status EXCEPT ![u] = ""]
    /\ UNCHANGED <<A, B, C, stageVars, df_tag, merged_df, merged_data_existing,
                   merged_data_df, unsent_index, requests, outbox, aborted>>

\* merge_data, line 570
MergeGetTag(u) ==
    /\ pc[u] = "merge_get_tag"
    /\ df_tag' = [df_tag EXCEPT ![u] = download_sheet_as_df(B)]
    /\ Goto(u, "merge_get_transcribe")
    /\ UNCHANGED <<A, B, C, stageVars, status, merged_df, merged_data_existing,
                   merged_data_df, unsent_index, requests, outbox, runs, aborted, overlap>>

\* merge_data, lines 571-595
MergeGetTranscribe(u) ==
    /\ pc[u] = "merge_get_transcribe"
    /\ LET df_transcribe == download_sheet_as_df(A)
           new == IF IsEmpty(df_tag[u]) \/ IsEmpty(df_transcribe) THEN EmptyDF
                  ELSE NewMergedRows(df_tag[u], df_transcribe)
       IN  IF IsEmpty(new)
           THEN /\ Goto(u, "send_get")
                /\ merged_df' = merged_df
           ELSE /\ Goto(u, "merge_get_merged")
                /\ merged_df' = [merged_df EXCEPT ![u] = new]
    /\ df_tag' = [df_tag EXCEPT ![u] = EmptyDF]
    /\ UNCHANGED <<A, B, C, stageVars, status, merged_data_existing, merged_data_df,
                   unsent_index, requests, outbox, runs, aborted, overlap>>

\* merge_data, lines 598-602
MergeGetMerged(u) ==
    /\ pc[u] = "merge_get_merged"
    /\ merged_data_existing' = [merged_data_existing EXCEPT ![u] = download_sheet_as_df(C)]
    /\ Goto(u, "merge_update_merged")
    /\ UNCHANGED <<A, B, C, stageVars, status, df_tag, merged_df, merged_data_df,
                   unsent_index, requests, outbox, runs, aborted, overlap>>

\* merge_data, line 605
MergeUpdateMerged(u) ==
    /\ pc[u] = "merge_update_merged"
    /\ LET merged_data_combined == Combined(merged_data_existing[u], merged_df[u])
       IN  /\ Len(merged_data_combined.rows) <= MaxC
           /\ C' = update_sheet(C, merged_data_combined)
    /\ merged_data_existing' = [merged_data_existing EXCEPT ![u] = EmptyDF]
    /\ Goto(u, "patch_tag_get")
    /\ UNCHANGED <<A, B, stageVars, status, df_tag, merged_df, merged_data_df,
                   unsent_index, requests, outbox, runs, aborted, overlap>>

\* update_merge_statuses, lines 261-302: read the sheet, find the columns
\* (headers.index raises ValueError for a missing one), collect the requests.
\* With no request no batchUpdate is made and the function returns.
PatchGet(u, at, values, flag_column, write, done) ==
    /\ pc[u] = at
    /\ IF values = <<>>
       THEN /\ Goto(u, done)
            /\ UNCHANGED <<df_tag, merged_df, merged_data_existing, merged_data_df,
                           unsent_index, requests, aborted, status>>
       ELSE IF ~Has(values[1], UNIQUE_ID_COLUMN) \/ ~Has(values[1], flag_column)
       THEN Raise(u)
       ELSE LET reqs == MergeStatusRequests(values, UniqueIds(merged_df[u]), flag_column)
            IN  /\ requests' = [requests EXCEPT ![u] = reqs]
                /\ Goto(u, IF reqs = {} THEN done ELSE write)
                /\ UNCHANGED <<df_tag, merged_df, merged_data_existing,
                               merged_data_df, unsent_index, aborted, status>>
    /\ UNCHANGED <<A, B, C, stageVars, outbox, runs, overlap>>

\* merge_data, line 609
PatchTagGet(u) ==
    PatchGet(u, "patch_tag_get", B, MERGE_STATUS_TAG, "patch_tag_write",
             "patch_transcribe_get")

\* update_merge_statuses, lines 304-309, on tag_transcripts
PatchTagWrite(u) ==
    /\ pc[u] = "patch_tag_write"
    /\ B' = ApplyMergeStatusRequests(B, requests[u], MERGE_STATUS_TAG)
    /\ requests' = [requests EXCEPT ![u] = {}]
    /\ Goto(u, "patch_transcribe_get")
    /\ UNCHANGED <<A, C, stageVars, status, df_tag, merged_df, merged_data_existing,
                   merged_data_df, unsent_index, outbox, runs, aborted, overlap>>

\* merge_data, line 610
PatchTranscribeGet(u) ==
    PatchGet(u, "patch_transcribe_get", A, MERGE_STATUS_TRANSCRIBE,
             "patch_transcribe_write", "send_get")

\* update_merge_statuses, lines 304-309, on transcribe_audio
PatchTranscribeWrite(u) ==
    /\ pc[u] = "patch_transcribe_write"
    /\ A' = ApplyMergeStatusRequests(A, requests[u], MERGE_STATUS_TRANSCRIBE)
    /\ requests' = [requests EXCEPT ![u] = {}]
    /\ Goto(u, "send_get")
    /\ UNCHANGED <<B, C, stageVars, status, df_tag, merged_df, merged_data_existing,
                   merged_data_df, unsent_index, outbox, runs, aborted, overlap>>

\* send_emails, lines 534-549
SendGet(u) ==
    /\ pc[u] = "send_get"
    /\ LET df == download_sheet_as_df(C)
           withFlag == EnsureColumn(df, SENT_FLAG_COLUMN, "")
           index == IF IsEmpty(df) THEN {} ELSE IndexWhere(withFlag, SENT_FLAG_COLUMN, "0")
       IN  IF index = {}
           THEN /\ Done(u)
           ELSE /\ Goto(u, "send_email")
                /\ merged_data_df' = [merged_data_df EXCEPT ![u] = withFlag]
                /\ unsent_index' = [unsent_index EXCEPT ![u] = index]
                /\ UNCHANGED <<df_tag, merged_df, merged_data_existing, requests, status>>
    /\ UNCHANGED <<A, B, C, stageVars, outbox, runs, aborted, overlap>>

\* Lines 558-563: what the run shows after send_email has returned.
SendMessage(email_sent) ==
    IF email_sent THEN "Email sent for entries." ELSE "Failed to send email."

\* Variant of SendEmail: the flags are set in the DataFrame before the result
\* of send_email is looked at.
SendEmail_FlagFirst(u, email_sent) ==
    /\ pc[u] = "send_email"
    /\ outbox' = Append(outbox, [index |-> unsent_index[u],
                                 rows |-> Len(merged_data_df[u].rows),
                                 ok |-> email_sent,
                                 message |-> SendMessage(email_sent)])
    /\ merged_data_df' = [merged_data_df EXCEPT ![u] =
           SetColumnAt(@, unsent_index[u], SENT_FLAG_COLUMN, "1")]
    /\ pc' = [pc EXCEPT ![u] = "send_update_merged"]
    /\ UNCHANGED <<A, B, C, stageVars, status, df_tag, merged_df,
                   merged_data_existing, unsent_index, requests, runs, aborted, overlap>>

\* send_emails, lines 556-563: one call of send_email, which returns True or
\* False and never raises.
SendEmail(u, email_sent) ==
    /\ pc[u] = "send_email"
    /\ outbox' = Append(outbox, [index |-> unsent_index[u],
                                 rows |-> Len(merged_data_df[u].rows),
                                 ok |-> email_sent,
                                 message |-> SendMessage(email_sent)])
    /\ merged_data_df' = [merged_data_df EXCEPT ![u] =
           IF email_sent THEN SetColumnAt(@, unsent_index[u], SENT_FLAG_COLUMN, "1")
           ELSE @]
    /\ Goto(u, "send_update_merged")
    /\ UNCHANGED <<A, B, C, stageVars, status, df_tag, merged_df, merged_data_existing,
                   unsent_index, requests, runs, aborted, overlap>>

\* send_emails, line 566
SendUpdateMerged(u) ==
    /\ pc[u] = "send_update_merged"
    /\ C' = update_sheet(C, merged_data_df[u])
    /\ Done(u)
    /\ UNCHANGED <<A, B, stageVars, outbox, runs, aborted, overlap>>

\* A Sheets API call (.execute()) raises: nothing in merge_data, send_emails or
\* the button handler catches it.
ApiCalls == {"merge_get_tag", "merge_get_transcribe", "merge_get_merged",
             "merge_update_merged", "patch_tag_get", "patch_tag_write",
             "patch_transcribe_get", "patch_transcribe_write", "send_get",
             "send_update_merged"}

ApiError(u) ==
    /\ pc[u] \in ApiCalls
    /\ Raise(u)
    /\ UNCHANGED <<A, B, C, stageVars, outbox, runs, overlap>>

\* ------------------------------------------------------------ specifications
\* The two stages that feed the logs, with every outcome of their Drive and
\* Sheets calls: the move of a media file and either append may fail.  The
\* specifications of the Generate Report handler below take the stages as the
\* source of new rows, with the move and the Tagging append succeeding.
NextStages ==
    \/ \E docx \in BOOLEAN, moved \in BOOLEAN, logged \in BOOLEAN :
          IngestFile(docx, moved, logged)
    \/ IngestEnd
    \/ \E id \in Ids, logged \in BOOLEAN : TagSubmit(id, logged)

SpecStages == Init /\ [][NextStages]_vars

AllIdle == \A u \in Users : pc[u] = "idle"
OthersIdle(u) == \A v \in Users \ {u} : pc[v] = "idle"

\* Any number of users, any interleaving of their API calls, calls may fail.
Next ==
    \/ \E u \in Users : GenerateReport(u)
    \/ \E u \in Users : MergeGetTag(u)
    \/ \E u \in Users : MergeGetTranscribe(u)
    \/ \E u \in Users : MergeGetMerged(u)
    \/ \E u \in Users : MergeUpdateMerged(u)
    \/ \E u \in Users : PatchTagGet(u)
    \/ \E u \in Users : PatchTagWrite(u)
    \/ \E u \in Users : PatchTranscribeGet(u)
    \/ \E u \in Users : PatchTranscribeWrite(u)
    \/ \E u \in Users : SendGet(u)
    \/ \E u \in Users, email_sent \in BOOLEAN : SendEmail(u, email_sent)
    \/ \E u \in Users : SendUpdateMerged(u)
    \/ \E u \in Users : ApiError(u)
    \/ \E docx \in BOOLEAN, logged \in BOOLEAN : IngestFile(docx, TRUE, logged)
    \/ IngestEnd
    \/ \E id \in Ids : TagSubmit(id, TRUE)

Spec == Init /\ [][Next]_vars

\* One run at a time, stage appends between runs, calls may fail.
NextSeq ==
    \/ \E u \in Users : OthersIdle(u) /\ GenerateReport(u)
    \/ \E u \in Users : OthersIdle(u) /\ MergeGetTag(u)
    \/ \E u \in Users : OthersIdle(u) /\ MergeGetTranscribe(u)
    \/ \E u \in Users : OthersIdle(u) /\ MergeGetMerged(u)
    \/ \E u \in Users : OthersIdle(u) /\ MergeUpdateMerged(u)
    \/ \E u \in Users : OthersIdle(u) /\ PatchTagGet(u)
    \/ \E u \in Users : OthersIdle(u) /\ PatchTagWrite(u)
    \/ \E u \in Users : OthersIdle(u) /\ PatchTranscribeGet(u)
    \/ \E u \in Users : OthersIdle(u) /\ PatchTranscribeWrite(u)
    \/ \E u \in Users : OthersIdle(u) /\ SendGet(u)
    \/ \E u \in Users, email_sent \in BOOLEAN : OthersIdle(u) /\ SendEmail(u, email_sent)
    \/ \E u \in Users : OthersIdle(u) /\ SendUpdateMerged(u)
    \/ \E u \in Users : OthersIdle(u) /\ ApiError(u)
    \/ \E docx \in BOOLEAN, logged \in BOOLEAN : AllIdle /\ IngestFile(docx, TRUE, logged)
    \/ AllIdle /\ IngestEnd
    \/ \E id \in Ids : AllIdle /\ TagSubmit(id, TRUE)

SpecSeq == Init /\ [][NextSeq]_vars

\* One run at a time and no API call fails.
NextNoFail ==
    \/ \E u \in Users : OthersIdle(u) /\ GenerateReport(u)
    \/ \E u \in Users : OthersIdle(u) /\ MergeGetTag(u)
    \/ \E u \in Users : OthersIdle(u) /\ MergeGetTranscribe(u)
    \/ \E u \in Users : OthersIdle(u) /\ MergeGetMerged(u)
    \/ \E u \in Users : OthersIdle(u) /\ MergeUpdateMerged(u)
    \/ \E u \in Users : OthersIdle(u) /\ PatchTagGet(u)
    \/ \E u \in Users : OthersIdle(u) /\ PatchTagWrite(u)
    \/ \E u \in Users : OthersIdle(u) /\ PatchTranscribeGet(u)
    \/ \E u \in Users : OthersIdle(u) /\ PatchTranscribeWrite(u)
    \/ \E u \in Users : OthersIdle(u) /\ SendGet(u)
    \/ \E u \in Users, email_sent \in BOOLEAN : OthersIdle(u) /\ SendEmail(u, email_sent)
    \/ \E u \in Users : OthersIdle(u) /\ SendUpdateMerged(u)
    \/ \E docx \in BOOLEAN, logged \in BOOLEAN : AllIdle /\ IngestFile(docx, TRUE, logged)
    \/ AllIdle /\ IngestEnd
    \/ \E id \in Ids : AllIdle /\ TagSubmit(id, TRUE)

SpecNoFail == Init /\ [][NextNoFail]_vars

\* A sheet with ragged rows: the header of tag_transcripts and up to
\* MaxReadRows data rows of 0..MaxReadWidth cells each, or no values at all.
RaggedCells == <<"c1", "c2", "c3", "c4", "c5", "c6", "c7", "c8">>

RaggedRow(n) == [k \in 1..n |-> RaggedCells[k]]

InitRead ==
    /\ \E withFlag \in BOOLEAN, n \in 0..MaxReadRows :
         \E width \in [1..n -> 0..(IF MaxReadWidth <= Len(RaggedCells)
                                   THEN MaxReadWidth ELSE Len(RaggedCells))] :
           B \in {<<>>, <<HeaderB(withFlag)>> \o [i \in 1..n |-> RaggedRow(width[i])]}
    /\ A = <<HeaderA(TRUE)>>
    /\ C = <<>>
    /\ nInitA = 0
    /\ nInitB = NRowsOf(B)
    /\ nInitC = 0
    /\ nextId = 1
    /\ prevId = 0
    /\ inbox = Files
    /\ file = 0
    /\ transcriptions_log = {}
    /\ status = [u \in Users |-> ""]
    /\ report_pc = "idle"
    /\ unsent_rows = <<>>
    /\ report_message = ""
    /\ pc = [u \in Users |-> "idle"]
    /\ df_tag = [u \in Users |-> EmptyDF]
    /\ merged_df = [u \in Users |-> EmptyDF]
    /\ merged_data_existing = [u \in Users |-> EmptyDF]
    /\ merged_data_df = [u \in Users |-> EmptyDF]
    /\ unsent_index = [u \in Users |-> {}]
    /\ requests = [u \in Users |-> {}]
    /\ outbox = <<>>
    /\ runs = 0
    /\ aborted = FALSE
    /\ overlap = FALSE

\* The read of tag_transcripts at the start of merge_data, on a ragged sheet.
NextRead ==
    \/ \E u \in Users : GenerateReport(u)
    \/ \E u \in Users : MergeGetTag(u)

SpecRead == InitRead /\ [][NextRead]_vars

\* ------------------------------------------- the older report of Tagging
\* send_email_report of tag_transcripts.py reads the sheet of the Tagging
\* stage under the header names 'File ID', 'HubSpot Profile', 'Transcription'
\* and 'Sent', with 'Yes' / 'No' in column J.  The sheet is cut down to these
\* four columns; column J is the fourth.
LegacyHeader(withSent) ==
    IF withSent THEN <<"File ID", "HubSpot Profile", "Transcription", "Sent">>
    ELSE <<"File ID", "HubSpot Profile", "Transcription", SENT_FLAG_COLUMN>>

ColumnJ == 4

LegacyFlags == {"Yes", "No"}

\* row[sent_col_index].strip().lower()
Lower(cell) == IF cell = "Yes" THEN "yes" ELSE IF cell = "No" THEN "no" ELSE cell

\* Line 551: the rows that reach the Sent column and do not hold 'yes' there.
UnsentRows(values) ==
    LET sent_col_index == IndexOf(values[1], "Sent")
    IN  SelectSeq(Tail(values),
                  LAMBDA row : Len(row) >= sent_col_index /\ Lower(row[sent_col_index]) # "yes")

\* Lines 609-614 and 621-624: 'Yes' is written to J{row_num} for row_num
\* counting from 2, one cell per row of unsent_rows.
MarkSent(values, n) ==
    [r \in 1..Len(values) |->
        IF 2 <= r /\ r <= n + 1
        THEN [k \in 1..Max(Len(values[r]), ColumnJ) |->
                 IF k = ColumnJ THEN "Yes"
                 ELSE IF k <= Len(values[r]) THEN values[r][k] ELSE ""]
        ELSE values[r]]

reportFrame == <<A, C, nInitA, nInitB, nInitC, nextId, prevId, inbox, file,
                 transcriptions_log, status, pc, df_tag, merged_df,
                 merged_data_existing, merged_data_df, unsent_index, requests,
                 outbox, runs, aborted, overlap>>

\* Lines 526-555.  ok: the values().get call returned; an exception is caught
\* by the outer handler (line 634).
ReportGet(ok) ==
    /\ report_pc = "idle"
    /\ IF ~ok
       THEN /\ report_message' = "An error occurred while generating the email report"
            /\ UNCHANGED <<report_pc, unsent_rows>>
       ELSE IF B = <<>>
       THEN /\ report_message' = "No data found in the spreadsheet."
            /\ UNCHANGED <<report_pc, unsent_rows>>
       ELSE IF \E h \in {"Sent", "File ID", "HubSpot Profile", "Transcription"} : ~Has(B[1], h)
       THEN /\ report_message' = "Missing expected column in the spreadsheet"
            /\ UNCHANGED <<report_pc, unsent_rows>>
       ELSE IF UnsentRows(B) = <<>>
       THEN /\ report_message' = "No unsent transcripts to report."
            /\ UNCHANGED <<report_pc, unsent_rows>>
       ELSE /\ unsent_rows' = UnsentRows(B)
            /\ report_pc' = "report_send"
            /\ report_message' = ""
    /\ UNCHANGED <<B, reportFrame>>

\* Lines 592-600 and 631-632: the Gmail send.
ReportSend(sent_message) ==
    /\ report_pc = "report_send"
    /\ IF sent_message
       THEN /\ report_message' = "Email report sent successfully."
            /\ report_pc' = "report_write"
            /\ UNCHANGED unsent_rows
       ELSE /\ report_message' = "Failed to send email report."
            /\ report_pc' = "idle"
            /\ unsent_rows' = <<>>
    /\ UNCHANGED <<B, reportFrame>>

\* Lines 602-628: the batchUpdate of the Sent cells; its failure is caught.
ReportWrite(ok) ==
    /\ report_pc = "report_write"
    /\ B' = IF ok THEN MarkSent(B, Len(unsent_rows)) ELSE B
    /\ report_message' = IF ok THEN "Marked transcriptions as sent in the spreadsheet."
                         ELSE "Failed to update 'Sent' flags"
    /\ report_pc' = "idle"
    /\ unsent_rows' = <<>>
    /\ UNCHANGED reportFrame

\* The sheet as the report finds it: rows of earlier Submits, sent or not.
InitLegacy ==
    /\ \E withSent \in BOOLEAN, n \in 0..MaxLegacyRows :
         \E flags \in [1..n -> LegacyFlags] :
           B \in {<<>>, <<LegacyHeader(withSent)>> \o
                        [k \in 1..n |-> <<k, "profile", "transcription", flags[k]>>]}
    /\ A = <<HeaderA(TRUE)>>
    /\ C = <<>>
    /\ nInitA = 0
    /\ nInitB = NRowsOf(B)
    /\ nInitC = 0
    /\ nextId = 1
    /\ prevId = 0
    /\ inbox = Files
    /\ file = 0
    /\ transcriptions_log = {}
    /\ status = [u \in Users |-> ""]
    /\ report_pc = "idle"
    /\ unsent_rows = <<>>
    /\ report_message = ""
    /\ pc = [u \in Users |-> "idle"]
    /\ df_tag = [u \in Users |-> EmptyDF]
    /\ merged_df = [u \in Users |-> EmptyDF]
    /\ merged_data_existing = [u \in Users |-> EmptyDF]
    /\ merged_data_df = [u \in Users |-> EmptyDF]
    /\ unsent_index = [u \in Users |-> {}]
    /\ requests = [u \in Users |-> {}]
    /\ outbox = <<>>
    /\ runs = 0
    /\ aborted = FALSE
    /\ overlap = FALSE

NextLegacy ==
    \/ \E ok \in BOOLEAN : ReportGet(ok)
    \/ \E sent_message \in BOOLEAN : ReportSend(sent_message)
    \/ \E ok \in BOOLEAN : ReportWrite(ok)

SpecLegacy == InitLegacy /\ [][NextLegacy]_vars

\* ------------------------------------------------------------ properties
\* Data rows of a sheet, and the cell of data row i in column col as a read
\* returns it (a cell the row does not reach reads as '').
NRows(values) == IF values = <<>> THEN 0 ELSE Len(values) - 1

Field(values, i, col) ==
    LET k == IndexOf(values[1], col)
        row == values[i + 1]
    IN  IF k <= Len(row) THEN row[k] ELSE ""

HasColumn(values, col) == values # <<>> /\ Has(values[1], col)

\* The flag of data row i as merge_data sees it (lines 577-581).
MergeFlag(values, i, flag_column) ==
    IF HasColumn(values, flag_column) THEN Field(values, i, flag_column) ELSE "0"

\* The (A-row, B-row) pair a row of C was joined from: the two stage rows are
\* named by their timestamps.
PairOf(values, i) ==
    <<Field(values, i, DATETIME_TRANSCRIBED), Field(values, i, DATETIME_TAGGED)>>

PairsIn(df) ==
    {<<Cell(df, df.rows[i], DATETIME_TRANSCRIBED), Cell(df, df.rows[i], DATETIME_TAGGED)>> :
        i \in 1..Len(df.rows)}

NoDoubleMerge ==
    \A i, j \in 1..NRows(C) : i # j => PairOf(C, i) # PairOf(C, j)

\* No pair of rows of one id is left with both flags '0'.
NothingToMerge ==
    \A a \in 1..NRows(A), b \in 1..NRows(B) :
        Field(A, a, UNIQUE_ID_COLUMN) = Field(B, b, UNIQUE_ID_COLUMN)
        => ~(/\ MergeFlag(A, a, MERGE_STATUS_TRANSCRIBE) = "0"
             /\ MergeFlag(B, b, MERGE_STATUS_TAG) = "0")

\* Some run got past merge_data after appending rows to C.
MergeCompleted(u) ==
    /\ pc[u] \in {"send_get", "send_email", "send_update_merged"}
    /\ ~IsEmpty(merged_df[u])

\* C1. No double merge: while every Merge run so far has run to completion, one
\* run after the other, with Ingestion and Tagging appends between runs, no
\* (A-row, B-row) pair is in C twice; and once a run has completed nothing is
\* left to merge, so the next run appends nothing.
C1_NoDoubleMerge ==
    ~aborted =>
        /\ NoDoubleMerge
        /\ \A u \in Users : MergeCompleted(u) => NothingToMerge

\* Two runs have ended, none aborted, a merge has appended rows to C and both
\* stages have appended rows to their logs.
C1_Witness ==
    /\ ~aborted
    /\ runs >= 2
    /\ AllIdle
    /\ NRows(C) > nInitC
    /\ NRows(A) > nInitA
    /\ NRows(B) > nInitB

\* The successfully delivered notifications that contain row i of C.
Delivered(i) == {k \in 1..Len(outbox) : outbox[k].ok /\ i \in outbox[k].index}

SentFlag(values, i) ==
    IF HasColumn(values, SENT_FLAG_COLUMN) THEN Field(values, i, SENT_FLAG_COLUMN) ELSE ""

\* C2. Exactly-once reporting: over Generate Report runs made one after the
\* other, in which sheet writes and the send may fail, no row of C is in more
\* than one delivered notification, and when the runs so far have all ended
\* normally and the last send succeeded every row of C has been reported.
C2_ExactlyOnceReported ==
    /\ \A i \in 1..NRows(C) : Cardinality(Delivered(i)) <= 1
    /\ (AllIdle /\ ~aborted /\ outbox # <<>> /\ outbox[Len(outbox)].ok)
        => \A i \in 1..NRows(C) :
              /\ SentFlag(C, i) = "1"
              /\ i > nInitC => Delivered(i) # {}

\* Row i of C keeps a sent_flag of '1' over the step.
SentFlagKept ==
    \/ C' = C
    \/ \A i \in 1..NRows(C) :
          SentFlag(C, i) = "1" => i <= NRows(C') /\ SentFlag(C', i) = "1"

\* C3 as stated. sent_flag is monotonic in every behaviour, runs of different
\* users interleaving their reads and overwrites of C included.
C3_SentFlagMonotonic == [][SentFlagKept]_vars

\* C3 amended. sent_flag is monotonic as long as no Generate Report run has
\* started while another one was under way.
C3_SentFlagMonotonicNoOverlap == [][~overlap' => SentFlagKept]_vars

\* A run has just overwritten C (merge_data line 605) and C holds a row whose
\* sent_flag is '1': merge_data writes '0' only on the rows it appends, so the
\* row was sent before the overwrite.
C3_Witness ==
    /\ ~overlap
    /\ \E u \in Users : pc[u] = "patch_tag_get"
    /\ \E i \in 1..NRows(C) : SentFlag(C, i) = "1"

\* The data rows of a stage log that carry timestamp t.
RowsStamped(values, col, t) == {i \in 1..NRows(values) : Field(values, i, col) = t}

\* The flag cell of data row i as stored in the sheet.
StoredFlag(values, i, flag_column) ==
    IF HasColumn(values, flag_column) THEN Field(values, i, flag_column) ELSE ""

\* C4. After a Merge run that completes, every A-row and every B-row of a pair
\* the run appended to C has its merge flag stored as '1' in its own log.
C4_MergedRowsFlagged ==
    \A u \in Users : MergeCompleted(u) =>
        \A p \in PairsIn(merged_df[u]) :
            /\ \A a \in RowsStamped(A, DATETIME_TRANSCRIBED, p[1]) :
                  StoredFlag(A, a, MERGE_STATUS_TRANSCRIBE) = "1"
            /\ \A b \in RowsStamped(B, DATETIME_TAGGED, p[2]) :
                  StoredFlag(B, b, MERGE_STATUS_TAG) = "1"
            /\ RowsStamped(A, DATETIME_TRANSCRIBED, p[1]) # {}
            /\ RowsStamped(B, DATETIME_TAGGED, p[2]) # {}

\* merge_data has returned after appending a pair whose rows are not the
\* first data rows of their logs.
C4_Witness ==
    \E u \in Users :
        /\ MergeCompleted(u)
        /\ \E p \in PairsIn(merged_df[u]) : p[2] > 1

\* The rows a step appends to C.
Appended == {i \in 1..NRows(C') : i > NRows(C)}

\* C5. The unmerged filter works row by row: a Merge run never appends to C a
\* pair whose A-row or B-row has flag '1' when the run starts, whatever flags
\* the other rows of that identifier carry.
C5_FilterPerRow ==
    [][\A i \in Appended :
          /\ \A a \in RowsStamped(A, DATETIME_TRANSCRIBED, PairOf(C', i)[1]) :
                StoredFlag(A, a, MERGE_STATUS_TRANSCRIBE) # "1"
          /\ \A b \in RowsStamped(B, DATETIME_TAGGED, PairOf(C', i)[2]) :
                StoredFlag(B, b, MERGE_STATUS_TAG) # "1"]_vars

\* merge_data has returned in the first run, and the logs hold an A-row with
\* flag '1' and a B-row with flag '0' of the same identifier (or a B-row with
\* flag '1' and an A-row with flag '0').
C5_Witness ==
    /\ runs = 1
    /\ \E u \in Users : pc[u] = "send_get"
    /\ \E a \in 1..NRows(A), b \in 1..NRows(B) :
          /\ Field(A, a, UNIQUE_ID_COLUMN) = Field(B, b, UNIQUE_ID_COLUMN)
          /\ \/ /\ StoredFlag(A, a, MERGE_STATUS_TRANSCRIBE) = "1"
                /\ StoredFlag(B, b, MERGE_STATUS_TAG) = "0"
             \/ /\ StoredFlag(A, a, MERGE_STATUS_TRANSCRIBE) = "0"
                /\ StoredFlag(B, b, MERGE_STATUS_TAG) = "1"

\* The rows of a log with identifier id that merge_data reads as unmerged.
Unmerged(values, flag_column, id) ==
    {i \in 1..NRows(values) :
        /\ Field(values, i, UNIQUE_ID_COLUMN) = id
        /\ MergeFlag(values, i, flag_column) = "0"}

\* C6. Join cardinality: the overwrite of C by a Merge run appends, for every
\* identifier, exactly (unmerged A-rows) x (unmerged B-rows) rows of that
\* identifier, all different pairs, each with sent_flag '0'.
C6_JoinCardinality ==
    [][\A u \in Users :
          (pc[u] = "merge_update_merged" /\ pc'[u] = "patch_tag_get") =>
              /\ \A id \in Ids :
                    Cardinality({i \in Appended : Field(C', i, UNIQUE_ID_COLUMN) = id})
                      = Cardinality(Unmerged(A, MERGE_STATUS_TRANSCRIBE, id))
                          * Cardinality(Unmerged(B, MERGE_STATUS_TAG, id))
              /\ \A i \in Appended : SentFlag(C', i) = "0"
              /\ \A i, j \in Appended : i # j => PairOf(C', i) # PairOf(C', j)]_vars

\* A run has just appended two rows to C that join one A-row with two B-rows.
C6_Witness ==
    \E u \in Users :
        /\ pc[u] = "patch_tag_get"
        /\ \E i, j \in 1..NRows(C) :
              /\ i > nInitC
              /\ j > i
              /\ PairOf(C, i)[1] = PairOf(C, j)[1]
              /\ PairOf(C, i)[2] # PairOf(C, j)[2]

\* C7. Stage progress: rows appended by the Ingestion and the Tagging stage
\* start unmerged, so when merge_data has returned every pair of such rows of
\* one identifier is in C (runs one after the other, appends between runs).
C7_StageRowsGetMerged ==
    \A u \in Users : pc[u] = "send_get" =>
        \A a \in 1..NRows(A), b \in 1..NRows(B) :
            (/\ a > nInitA
             /\ b > nInitB
             /\ Field(A, a, UNIQUE_ID_COLUMN) = Field(B, b, UNIQUE_ID_COLUMN))
            => \E i \in 1..NRows(C) :
                  PairOf(C, i) = <<Field(A, a, DATETIME_TRANSCRIBED),
                                   Field(B, b, DATETIME_TAGGED)>>

\* C8. Backward compatibility keeps no-double-merge: with a log whose header
\* has no merge-status column, runs made one after the other with no failing
\* API call never put a pair into C twice.
C8_NoDoubleMergeWithoutColumn ==
    (~HasColumn(A, MERGE_STATUS_TRANSCRIBE) \/ ~HasColumn(B, MERGE_STATUS_TAG))
        => NoDoubleMerge

\* Data row i of a stage log keeps a stored flag of '1' over the step.
MergeFlagKept(old, new, flag_column) ==
    \/ new = old
    \/ \A i \in 1..NRows(old) :
          StoredFlag(old, i, flag_column) = "1"
          => i <= NRows(new) /\ StoredFlag(new, i, flag_column) = "1"

\* C9. Merge-flag monotonicity: no step of any stage, in any interleaving,
\* changes a merge flag of A or B that is '1'.
C9_MergeFlagMonotonic ==
    [][/\ MergeFlagKept(A, A', MERGE_STATUS_TRANSCRIBE)
       /\ MergeFlagKept(B, B', MERGE_STATUS_TAG)]_vars

\* update_merge_statuses has just written flags of B in the first run, and B
\* holds a row of one of the identifiers that was not joined and has flag '1':
\* the row had the flag before the write.
C9_Witness ==
    /\ runs = 1
    /\ \E u \in Users :
          /\ pc[u] = "patch_transcribe_get"
          /\ \E b \in 1..nInitB :
                /\ StoredFlag(B, b, MERGE_STATUS_TAG) = "1"
                /\ Field(B, b, UNIQUE_ID_COLUMN) \in UniqueIds(merged_df[u])
                /\ \A p \in PairsIn(merged_df[u]) : p[2] # Field(B, b, DATETIME_TAGGED)

\* C10. set_flag is idempotent: right after update_merge_statuses has returned,
\* a second call with the same identifiers would collect no request (no cell
\* write), and its write would leave the sheet as it is.
C10_SetFlagIdempotent ==
    \A u \in Users :
        /\ (pc[u] = "patch_transcribe_get" /\ ~IsEmpty(merged_df[u]))
            => LET again == MergeStatusRequests(B, UniqueIds(merged_df[u]), MERGE_STATUS_TAG)
               IN  /\ again = {}
                   /\ ApplyMergeStatusRequests(B, again, MERGE_STATUS_TAG) = B
        /\ MergeCompleted(u)
            => LET again == MergeStatusRequests(A, UniqueIds(merged_df[u]),
                                                MERGE_STATUS_TRANSCRIBE)
               IN  /\ again = {}
                   /\ ApplyMergeStatusRequests(A, again, MERGE_STATUS_TRANSCRIBE) = A

\* update_merge_statuses has returned from tag_transcripts after it wrote the
\* flag of a row that a stage had appended without flag '0' or '1'.
C10_Witness ==
    \E u \in Users :
        /\ pc[u] = "patch_transcribe_get"
        /\ ~IsEmpty(merged_df[u])
        /\ \E b \in 1..NRows(B) :
              /\ b > nInitB
              /\ Field(B, b, UNIQUE_ID_COLUMN) \in UniqueIds(merged_df[u])
              /\ StoredFlag(B, b, MERGE_STATUS_TAG) = "1"

\* The rows of C a read finds with sent_flag '0'.
Unsent(values) == {i \in 1..NRows(values) : SentFlag(values, i) = "0"}

\* The runs under way that have not called send_email.
NotSentYet == {u \in Users : pc[u] \notin {"idle", "send_update_merged"}}

\* C11. Send-call count: a Dispatch run that reads C with no row of sent_flag
\* '0' ends with no send call and no write to C; otherwise it makes one send
\* call, whose batch is the set of rows that had sent_flag '0' when C was read,
\* and goes on to the write without a second call.  No run makes more than one
\* send call, and no other step makes one.
C11_SendCallCount ==
    [][/\ \A u \in Users :
            /\ (pc[u] = "send_get" /\ pc'[u] # "send_get") =>
                  /\ outbox' = outbox
                  /\ C' = C
                  /\ pc'[u] \in {"send_email", "idle"}
                  /\ (pc'[u] = "send_email") =>
                        (unsent_index'[u] = Unsent(C) /\ Unsent(C) # {})
                  /\ (Unsent(C) = {}) => (pc'[u] = "idle")
            /\ (pc[u] = "send_email" /\ pc'[u] # "send_email") =>
                  /\ pc'[u] = "send_update_merged"
                  /\ Len(outbox') = Len(outbox) + 1
                  /\ outbox'[Len(outbox')].index = unsent_index[u]
                  /\ C' = C
       /\ (outbox' # outbox) =>
             (\E u \in Users : pc[u] = "send_email" /\ pc'[u] = "send_update_merged")
       /\ Len(outbox') + Cardinality(NotSentYet') <= runs']_vars

\* A run has made its send call with a batch that leaves out a row of C that
\* was sent before, while no other run was under way.
C11_Witness ==
    /\ ~overlap
    /\ \E u \in Users :
          /\ pc[u] = "send_update_merged"
          /\ unsent_index[u] # {}
          /\ \E i \in 1..NRows(C) : i \notin unsent_index[u] /\ SentFlag(C, i) = "1"

\* The sheet with sent_flag '1' stored in the data rows of index.
FlagsSet(values, index) ==
    [i \in 1..Len(values) |->
        IF (i - 1) \in index
        THEN [values[i] EXCEPT ![IndexOf(values[1], SENT_FLAG_COLUMN)] = "1"]
        ELSE values[i]]

\* C12. Dispatch frame: after a successful delivery the write of the run (runs
\* one after the other) leaves C as it was except that the sent_flag of the
\* rows of the notification is '1'; when the write call itself fails C is not
\* changed at all.
C12_DispatchFrame ==
    [][\A u \in Users :
          (pc[u] = "send_update_merged" /\ pc'[u] = "idle" /\ outbox[Len(outbox)].ok)
          => \/ C' = FlagsSet(C, outbox[Len(outbox)].index)
             \/ aborted' /\ C' = C]_vars

\* A run has ended after a successful delivery, no run has failed, the rows of
\* the notification hold '1' and C holds a row that was not in the notification.
C12_Witness ==
    /\ AllIdle
    /\ ~aborted
    /\ outbox # <<>>
    /\ outbox[Len(outbox)].ok
    /\ \A i \in outbox[Len(outbox)].index : SentFlag(C, i) = "1"
    /\ \E i \in 1..NRows(C) : i \notin outbox[Len(outbox)].index

\* C13. Failed delivery is retried: after a send call that failed (runs one
\* after the other) the run shows the failure message, every row of its batch
\* keeps sent_flag '0' in C, and the batch of the next send call is the same
\* rows (with any rows merged since).
C13_FailedDeliveryRetried ==
    /\ \A k \in 1..Len(outbox) :
          ~outbox[k].ok =>
             /\ outbox[k].message = "Failed to send email."
             /\ (k < Len(outbox)) =>
                   (outbox[k + 1].index \cap (1..outbox[k].rows) = outbox[k].index)
    /\ (outbox # <<>> /\ ~outbox[Len(outbox)].ok) =>
          /\ \A i \in outbox[Len(outbox)].index : i <= NRows(C) /\ SentFlag(C, i) = "0"
          /\ \A u \in Users :
                (pc[u] = "send_email") =>
                   (unsent_index[u] \cap (1..outbox[Len(outbox)].rows)
                       = outbox[Len(outbox)].index)

\* Two runs have ended; the send call of the first failed and the second made
\* a send call with the same batch.
C13_Witness ==
    /\ AllIdle
    /\ Len(outbox) >= 2
    /\ ~outbox[1].ok
    /\ outbox[2].index = outbox[1].index

\* The rows of a sheet, and of a DataFrame, that hold pair p.
CountPair(values, p) == Cardinality({i \in 1..NRows(values) : PairOf(values, i) = p})

CountPairIn(df, p) ==
    Cardinality({i \in 1..Len(df.rows) :
        <<Cell(df, df.rows[i], DATETIME_TRANSCRIBED), Cell(df, df.rows[i], DATETIME_TAGGED)>> = p})

\* merged_df and merged_data_combined of a Merge run that starts in this state
\* (merge_data lines 570-602).
NextMerged ==
    LET tag == download_sheet_as_df(B)
        transcribe == download_sheet_as_df(A)
    IN  IF IsEmpty(tag) \/ IsEmpty(transcribe) THEN EmptyDF
        ELSE NewMergedRows(tag, transcribe)

NextCombined == Combined(download_sheet_as_df(C), NextMerged)

\* C14. Non-atomic merge: when a Merge run has overwritten C with its new rows
\* and has not yet back-patched A and B (runs one after the other), every pair
\* it appended is in C and is still unmerged in A and B, so that a Merge run
\* starting from this state (the run having stopped here) joins the same pair
\* again and writes C with one more row of that pair.
C14_StopBeforeBackPatchMergesAgain ==
    \A u \in Users :
        (pc[u] = "patch_tag_get") =>
            \A p \in PairsIn(merged_df[u]) :
                /\ CountPair(C, p) >= 1
                /\ p \in PairsIn(NextMerged)
                /\ CountPairIn(NextCombined, p) = CountPair(C, p) + 1

\* A run has stopped on an exception and the next run has just overwritten C;
\* both logs have their merge-status column and C holds a pair of this run
\* twice.
C14_Witness ==
    /\ aborted
    /\ runs = 2
    /\ HasColumn(A, MERGE_STATUS_TRANSCRIBE)
    /\ HasColumn(B, MERGE_STATUS_TAG)
    /\ \E u \in Users :
          /\ pc[u] = "patch_tag_get"
          /\ \E p \in PairsIn(merged_df[u]) : CountPair(C, p) >= 2

\* The positions of a run after merge_data has overwritten C.
AfterMergeWrite == {"patch_tag_get", "patch_tag_write", "patch_transcribe_get",
                    "patch_transcribe_write", "send_get", "send_email",
                    "send_update_merged"}

\* C15. Merge runs are not mutually excluded: a Merge run appends every pair it
\* read as unmerged to the rows of C it read, whatever another run has written
\* since its reads, so C holds the pair once more than the run found it; two
\* runs of different users that both read a pair as unmerged leave it in C
\* twice (the witness).
C15_MergeAppendsWhatItRead ==
    [][\A u \in Users :
          (pc[u] = "merge_update_merged" /\ pc'[u] = "patch_tag_get") =>
              \A p \in PairsIn(merged_df[u]) :
                  CountPair(C', p) >= CountPairIn(merged_data_existing[u], p) + 1]_vars

\* Two runs of different users, neither failed, have both overwritten C with a
\* pair both read as unmerged, and C holds the pair twice.
C15_Witness ==
    /\ ~aborted
    /\ \E u \in Users, v \in Users :
          /\ u # v
          /\ pc[u] \in AfterMergeWrite
          /\ pc[v] \in AfterMergeWrite
          /\ \E p \in PairsIn(merged_df[u]) \cap PairsIn(merged_df[v]) :
                CountPair(C, p) >= 2

\* The record of data row i of a log: its fields other than the status flags.
Record(values, i, datetime_column) ==
    <<Field(values, i, UNIQUE_ID_COLUMN), Field(values, i, datetime_column)>>

RecordC(values, i) == <<Field(values, i, UNIQUE_ID_COLUMN), PairOf(values, i)>>

\* Every data row of the log is still there after the step, at its place, with
\* the same record.
RowsKept(old, new, datetime_column) ==
    \/ new = old
    \/ \A i \in 1..NRows(old) :
          i <= NRows(new) /\ Record(new, i, datetime_column) = Record(old, i, datetime_column)

RowsKeptC ==
    \/ C' = C
    \/ \A i \in 1..NRows(C) : i <= NRows(C') /\ RecordC(C', i) = RecordC(C, i)

AppendOnly ==
    /\ RowsKept(A, A', DATETIME_TRANSCRIBED)
    /\ RowsKept(B, B', DATETIME_TAGGED)
    /\ RowsKeptC

SheetOf(df) == <<df.columns>> \o df.rows

\* C17. update_sheet replaces the entire log body: after each overwrite of C
\* that succeeds, by merge_data or by send_emails, C holds exactly the header
\* and rows the call was given, and no row of the previous body beyond them.
C17_OverwriteReplacesBody ==
    [][\A u \in Users :
          /\ (pc[u] = "merge_update_merged" /\ pc'[u] = "patch_tag_get") =>
                (C' = SheetOf(Combined(merged_data_existing[u], merged_df[u])))
          /\ (pc[u] = "send_update_merged" /\ pc'[u] = "idle" /\ ~aborted') =>
                (C' = SheetOf(merged_data_df[u]))]_vars

\* C18. Merge no-op: when A has no row, B has no row, or no pair of rows of one
\* identifier has both flags '0', a Merge run (runs one after the other, no
\* API call failing) reads the two logs, writes nothing to A, B or C, raises
\* nothing and hands over to Dispatch with no merged row.
C18_MergeNoOp ==
    [][\A u \in Users :
          /\ (pc[u] = "merge_get_tag" /\ pc'[u] # pc[u]) =>
                (A' = A /\ B' = B /\ C' = C /\ pc'[u] = "merge_get_transcribe")
          /\ (pc[u] = "merge_get_transcribe" /\ pc'[u] # pc[u] /\ NothingToMerge) =>
                /\ pc'[u] = "send_get"
                /\ IsEmpty(merged_df'[u])
                /\ A' = A
                /\ B' = B
                /\ C' = C
                /\ aborted' = aborted]_vars

\* merge_data has returned with nothing merged in a state where A and B hold
\* rows of one identifier, none of them a pair with both flags '0'.
C18_Witness ==
    /\ NothingToMerge
    /\ \E u \in Users : pc[u] = "send_get" /\ IsEmpty(merged_df[u])
    /\ \E a \in 1..NRows(A), b \in 1..NRows(B) :
          Field(A, a, UNIQUE_ID_COLUMN) = Field(B, b, UNIQUE_ID_COLUMN)

\* The positions of a run inside merge_data.
MergeStage == {"merge_get_tag", "merge_get_transcribe", "merge_get_merged",
               "merge_update_merged", "patch_tag_get", "patch_tag_write",
               "patch_transcribe_get", "patch_transcribe_write"}

\* A log misses the status column merge_data expects of it.
SchemaDrift ==
    \/ ~HasColumn(A, MERGE_STATUS_TRANSCRIBE)
    \/ ~HasColumn(B, MERGE_STATUS_TAG)

\* C19. Schema drift is a hard stop: when the header of A or of B has no
\* merge-status column, no step of the Merge stage (back-patch included, no
\* API call failing) yields rows to merge or writes to A, B or C.
C19_SchemaDriftWritesNothing ==
    [][\A u \in Users :
          (pc[u] \in MergeStage /\ pc'[u] # pc[u] /\ SchemaDrift) =>
              /\ IsEmpty(merged_df'[u])
              /\ A' = A
              /\ B' = B
              /\ C' = C]_vars

\* The positions of a run inside send_emails.
DispatchStage == {"send_get", "send_email", "send_update_merged"}

\* C20. No exception crosses a stage boundary: a run (runs one after the
\* other, API calls may fail) that leaves the Merge stage goes on inside the
\* handler, to a later call of the Merge stage or to the Dispatch stage; it
\* never ends inside merge_data.
C20_MergeFailureReachesDispatch ==
    [][\A u \in Users :
          (pc[u] \in MergeStage /\ pc'[u] # pc[u]) =>
              pc'[u] \in MergeStage \cup DispatchStage]_vars

\* C21. download_sheet_as_df on ragged rows: the DataFrame read from a sheet
\* has the header as its columns and one row per data row of the sheet, in
\* the same order, each as wide as the header: the cells of the sheet row up
\* to the header width, then '' for the cells a short row lacks.  A sheet
\* with no values reads as the empty DataFrame.
C21_ReadAllPadsAndTruncates ==
    \A u \in Users :
        (pc[u] = "merge_get_transcribe") =>
            IF B = <<>> THEN df_tag[u] = EmptyDF
            ELSE /\ df_tag[u].columns = B[1]
                 /\ Len(df_tag[u].rows) = Len(B) - 1
                 /\ \A i \in 1..(Len(B) - 1) :
                       /\ Len(df_tag[u].rows[i]) = Len(B[1])
                       /\ \A k \in 1..Len(B[1]) :
                             df_tag[u].rows[i][k] =
                                 IF k <= Len(B[i + 1]) THEN B[i + 1][k] ELSE ""

\* A sheet with a row longer than the header and a row shorter than the
\* header has been read.
C21_Witness ==
    \E u \in Users :
        /\ pc[u] = "merge_get_transcribe"
        /\ B # <<>>
        /\ \E i \in 2..Len(B) : Len(B[i]) > Len(B[1])
        /\ \E i \in 2..Len(B) : Len(B[i]) < Len(B[1])

\* The three Row Store writes of a Merge run: the overwrite of merged_data and
\* the batchUpdate of each stage log.
MergeWrites == {"merge_update_merged", "patch_tag_write", "patch_transcribe_write"}

\* C22. A failed write of a Merge run leaves the flags unset: when a run
\* (runs one after the other) ends at one of its three writes, no row of
\* transcribe_audio or tag_transcripts that the run joined has its merge flag
\* stored as '1'.
C22_FailedWriteLeavesFlagsUnset ==
    [][\A u \in Users :
          (pc[u] \in MergeWrites /\ pc'[u] = "idle") =>
              \A p \in PairsIn(merged_df[u]) :
                  /\ \A a \in RowsStamped(A', DATETIME_TRANSCRIBED, p[1]) :
                        StoredFlag(A', a, MERGE_STATUS_TRANSCRIBE) # "1"
                  /\ \A b \in RowsStamped(B', DATETIME_TAGGED, p[2]) :
                        StoredFlag(B', b, MERGE_STATUS_TAG) # "1"]_vars

\* The data rows of a stage log whose stored merge flag a step turns into '1'.
FlagSet(old, new, flag_column) ==
    {i \in 1..NRows(old) :
        /\ StoredFlag(old, i, flag_column) # "1"
        /\ StoredFlag(new, i, flag_column) = "1"}

\* C25. A merge flag means 'merged': whenever a step of a Merge run (runs one
\* after the other) sets the flag of a row of transcribe_audio or
\* tag_transcripts to '1', that row is part of a row of merged_data.
C25_FlaggedRowsAreMerged ==
    [][/\ \A a \in FlagSet(A, A', MERGE_STATUS_TRANSCRIBE) :
             \E c \in 1..NRows(C') :
                 PairOf(C', c)[1] = Field(A, a, DATETIME_TRANSCRIBED)
       /\ \A b \in FlagSet(B, B', MERGE_STATUS_TAG) :
             \E c \in 1..NRows(C') :
                 PairOf(C', c)[2] = Field(B, b, DATETIME_TAGGED)]_vars

\* The overwrite of merged_data by the run of u keeps the rows the sheet held,
\* in the same order, each with the same identifier, timestamps and sent_flag,
\* and puts the rows the run joined after them, in the order of the join.
KeepsPreviousRows(u) ==
    (pc[u] = "merge_update_merged" /\ pc'[u] = "patch_tag_get") =>
              /\ NRows(C') = NRows(C) + Len(merged_df[u].rows)
              /\ \A i \in 1..NRows(C) :
                    /\ RecordC(C', i) = RecordC(C, i)
                    /\ SentFlag(C', i) = SentFlag(C, i)
              /\ \A k \in 1..Len(merged_df[u].rows) :
                    /\ PairOf(C', NRows(C) + k) =
                           <<Cell(merged_df[u], merged_df[u].rows[k], DATETIME_TRANSCRIBED),
                             Cell(merged_df[u], merged_df[u].rows[k], DATETIME_TAGGED)>>
                    /\ SentFlag(C', NRows(C) + k) = "0"

\* C26 as stated. A completed Merge run leaves the previous contents of
\* merged_data in place, in every behaviour, runs of different users
\* interleaving included: the body is the rows it held before, unchanged,
\* followed by the newly joined rows.
C26_MergeKeepsPreviousRows == [][\A u \in Users : KeepsPreviousRows(u)]_vars

\* C26 amended. A Merge run leaves the previous contents of merged_data in
\* place, followed by the newly joined rows, as long as no Generate Report run
\* has started while another one was under way.
C26_MergeKeepsPreviousRowsNoOverlap ==
    [][~overlap' => \A u \in Users : KeepsPreviousRows(u)]_vars

\* A run has just overwritten merged_data, which held a sent row before the
\* run and holds it still, with the row the run joined after it.
C26_Witness ==
    \E u \in Users :
        /\ pc[u] = "patch_tag_get"
        /\ ~overlap
        /\ ~IsEmpty(merged_df[u])
        /\ nInitC >= 1
        /\ NRows(C) = nInitC + Len(merged_df[u].rows)
        /\ \E i \in 1..nInitC : SentFlag(C, i) = "1"

\* The send call of the run of u has returned False: the rows of its batch
\* still hold sent_flag '0' in the run's DataFrame (lines 558-563).
SendFailed(u) ==
    /\ unsent_index[u] # {}
    /\ IndexWhere(merged_data_df[u], SENT_FLAG_COLUMN, "0") = unsent_index[u]

\* C29. A Dispatch run whose send call failed writes nothing: the last step of
\* such a run leaves merged_data as it is, whatever other runs have written to
\* it since this run read it.
C29_FailedSendWritesNothing ==
    [][\A u \in Users :
          (pc[u] = "send_update_merged" /\ pc'[u] = "idle" /\ SendFailed(u))
              => C' = C]_vars

\* C23. Fresh identifiers: no two rows of transcribe_audio carry the same
\* gd_transcript_file_id, whatever the outcome of the document upload, the
\* move and the append of each file of an Ingestion run.
C23_FreshIdentifiers ==
    \A i, j \in 1..NRows(A) :
        i # j => Field(A, i, UNIQUE_ID_COLUMN) # Field(A, j, UNIQUE_ID_COLUMN)

\* The rows of transcribe_audio made from media file f.
RowsOfSource(f) == {i \in 1..NRows(A) : Field(A, i, GD_INPUT_AUDIO_FILE_ID) = f}

\* C24. One row per source item: after any sequence of Ingestion runs, in
\* which the move or the append may fail, every media file has at most one row
\* in transcribe_audio, and exactly one once it has left the unprocessed folder.
C24_OneRowPerSourceItem ==
    \A f \in Files :
        /\ Cardinality(RowsOfSource(f)) <= 1
        /\ (f \notin inbox) => Cardinality(RowsOfSource(f)) = 1

\* C27. Tagging aborts on a failed log write: every transcript whose Submit
\* went on to the later steps, up to the session log entry, has a row in
\* tag_transcripts.
C27_TaggedHasRow ==
    \A id \in transcriptions_log :
        \E b \in 1..NRows(B) : Field(B, b, UNIQUE_ID_COLUMN) = id

\* C30. The final status is truthful: the page of a run shows 'Email sent.'
\* only when the send call of that run succeeded; it does not show it after a
\* failed send or when the run found no unsent rows.
C30_FinalStatusTruthful ==
    [][\A u \in Users :
          (pc[u] # "idle" /\ status'[u] = EMAIL_SENT) =>
              /\ pc[u] = "send_update_merged"
              /\ ~SendFailed(u)]_vars

\* C28. The older report marks what it reported: when the report was sent and
\* the Sent cells were written, the rows whose Sent cell the write turned into
\* 'Yes' are exactly the rows that were in the report, wherever they are in
\* the sheet.
C28_LegacyMarksReportedRows ==
    [][(/\ report_pc = "report_write"
        /\ report_message' = "Marked transcriptions as sent in the spreadsheet.")
       => \A i \in 1..NRows(B) :
              (B[i + 1][ColumnJ] # "Yes" /\ B'[i + 1][ColumnJ] = "Yes")
                  <=> (\E k \in 1..Len(unsent_rows) : unsent_rows[k] = B[i + 1])]_vars

====
